---- MODULE Spec2Model ----
(***************************************************************************)
(* prodoh: a DNS (UDP) to DNS-over-HTTPS (JSON) proxy, src/prodoh.go.      *)
(*                                                                         *)
(* The model follows one request through handleDnsRequest, parseQuery and  *)
(* DoHQuery.  The only step at which a handler waits is the HTTP call of   *)
(* httpGet, so a handler is at "recv" (request decoded, handler not yet    *)
(* run), at "http" (blocked in client.Do) or at "done".                    *)
(***************************************************************************)
EXTENDS Integers, Sequences, FiniteSets, TLC

VARIABLES
    upstreams,  \* the -upstream flag values in order (line 35)
    timeout,    \* the -timeout flag value, an int64 of nanoseconds (line 33)
    req,        \* per handler: the decoded request
    pc,         \* per handler: "recv", "http" or "done"
    m,          \* per handler: the reply being built (lines 192-194)
    wire,       \* per handler: the messages written to the requester, in order
    calls,      \* per handler: the DoHQuery calls made so far, each with its question
                \* index q, upstream index u, whether it sent an HTTP request, and
                \* its state "pending", "ok" or "failed"
    inflight,   \* per handler: the DoHQuery call blocked in httpGet, with its context
    last,       \* per handler: the last DoHQuery call that returned, with what httpGet
                \* gave it and what it gave parseQuery
    probe,      \* the type mapper on its own: a code and typeToString of it
    proc        \* the process: where main is, whether the UDP socket was opened and is
                \* open, whether server.Shutdown was called, the signal received

vars == <<upstreams, timeout, req, pc, m, wire, calls, inflight, last, probe, proc>>

(***************************************************************************)
(* Bounds of the model.                                                    *)
(***************************************************************************)
MaxUpstreams == 2
MaxQuestions == 2
MaxAnswers == 2

(***************************************************************************)
(* Program constants (github.com/miekg/dns and package time).              *)
(***************************************************************************)
TypeA == 1
TypeNS == 2
TypeCNAME == 5
TypeSOA == 6
TypePTR == 12
TypeMX == 15
TypeTXT == 16
TypeAAAA == 28
TypeSRV == 33
TypeSPF == 99
TypeANY == 255
ClassINET == 1
OpcodeQuery == 0
OpcodeNotify == 4
RcodeSuccess == 0
RcodeServerFailure == 2
Second == 1000000000
DefaultTimeout == 10
Uint16Max == 65535

(***************************************************************************)
(* Signed 64-bit integers (time.Duration is an int64 of nanoseconds),      *)
(* written as 8 bytes, least significant first, in two's complement.       *)
(***************************************************************************)
RECURSIVE Bytes(_, _)
Bytes(n, k) == IF k = 0 THEN <<>> ELSE <<n % 256>> \o Bytes(n \div 256, k - 1)

\* the int64 of a small integer (|n| < 2^31)
Int64(n) == IF n >= 0 THEN Bytes(n, 8)
            ELSE [i \in 1..8 |-> 255 - Bytes((-n) - 1, 8)[i]]

RECURSIVE ColSum(_, _, _, _)
ColSum(a, b, k, i) ==
    IF i > k THEN 0
    ELSE (IF i <= Len(a) /\ (k + 1 - i) <= Len(b) THEN a[i] * b[k + 1 - i] ELSE 0)
         + ColSum(a, b, k, i + 1)

RECURSIVE MulBytes(_, _, _, _, _)
MulBytes(a, b, k, carry, n) ==
    IF k > n THEN <<>>
    ELSE LET s == carry + ColSum(a, b, k, 1)
         IN  <<s % 256>> \o MulBytes(a, b, k + 1, s \div 256, n)

\* Go's int64 product: the low 64 bits of the product (the operands evaluated once)
Mul64(a, b) == CHOOSE p \in {MulBytes(x, y, 1, 0, 8) : x \in {a}, y \in {b}} : TRUE

\* the product of two non-negative int64 as a 128-bit number, never wrapped
MulExact(a, b) == MulBytes(a, b, 1, 0, 16)

IsNeg(a) == a[Len(a)] >= 128
IsZero(a) == \A i \in 1..Len(a) : a[i] = 0
IsPos(a) == ~IsNeg(a) /\ ~IsZero(a)

\* unsigned comparison of two byte strings of the same length
RECURSIVE ULess(_, _, _)
ULess(a, b, i) ==
    IF i = 0 THEN FALSE
    ELSE IF a[i] # b[i] THEN a[i] < b[i]
    ELSE ULess(a, b, i - 1)

\* a <= b for non-negative a, b of the same length
LeqNonNeg(a, b) == ~ULess(b, a, Len(a))

\* zero-extension of a non-negative int64 to 128 bits
Widen(a) == a \o [i \in 1..8 |-> 0]

(***************************************************************************)
(* Type Mapper: typeToString.  A result is the pair (string, error) of the *)
(* Go function; err = "nil" is success.                                    *)
(***************************************************************************)
typeToStringDropsSPF(dnsType) ==
    CASE dnsType = TypeA     -> [str |-> "A",     err |-> "nil"]
      [] dnsType = TypeAAAA  -> [str |-> "AAAA",  err |-> "nil"]
      [] dnsType = TypeCNAME -> [str |-> "CNAME", err |-> "nil"]
      [] dnsType = TypeMX    -> [str |-> "MX",    err |-> "nil"]
      [] dnsType = TypeTXT   -> [str |-> "TXT",   err |-> "nil"]
      [] dnsType = TypeNS    -> [str |-> "NS",    err |-> "nil"]
      [] dnsType = TypeSOA   -> [str |-> "SOA",   err |-> "nil"]
      [] dnsType = TypePTR   -> [str |-> "PTR",   err |-> "nil"]
      [] dnsType = TypeANY   -> [str |-> "ANY",   err |-> "nil"]
      [] OTHER               -> [str |-> "",      err |-> "Unsupported type"]

typeToString(dnsType) ==
    CASE dnsType = TypeA     -> [str |-> "A",     err |-> "nil"]
      [] dnsType = TypeAAAA  -> [str |-> "AAAA",  err |-> "nil"]
      [] dnsType = TypeCNAME -> [str |-> "CNAME", err |-> "nil"]
      [] dnsType = TypeMX    -> [str |-> "MX",    err |-> "nil"]
      [] dnsType = TypeTXT   -> [str |-> "TXT",   err |-> "nil"]
      [] dnsType = TypeSPF   -> [str |-> "SPF",   err |-> "nil"]
      [] dnsType = TypeNS    -> [str |-> "NS",    err |-> "nil"]
      [] dnsType = TypeSOA   -> [str |-> "SOA",   err |-> "nil"]
      [] dnsType = TypePTR   -> [str |-> "PTR",   err |-> "nil"]
      [] dnsType = TypeANY   -> [str |-> "ANY",   err |-> "nil"]
      [] OTHER               -> [str |-> "",      err |-> "Unsupported type"]

(***************************************************************************)
(* dns.NewRR on the text "<name> <TTL> IN <type> <data>" that DoHQuery     *)
(* synthesizes.  The text is kept as its whitespace-separated fields; the  *)
(* parser reads the class, turns the type mnemonic back into a type code   *)
(* and reads the rdata fields the type requires.                           *)
(***************************************************************************)
StringToType ==
    [s \in {"A", "NS", "CNAME", "SOA", "PTR", "MX", "TXT", "AAAA", "SRV", "SPF", "ANY"} |->
        CASE s = "A" -> TypeA      [] s = "NS" -> TypeNS    [] s = "CNAME" -> TypeCNAME
          [] s = "SOA" -> TypeSOA  [] s = "PTR" -> TypePTR  [] s = "MX" -> TypeMX
          [] s = "TXT" -> TypeTXT  [] s = "AAAA" -> TypeAAAA [] s = "SRV" -> TypeSRV
          [] s = "SPF" -> TypeSPF  [] s = "ANY" -> TypeANY]

IPv4Texts == {"93.184.216.34", "192.0.2.1"}
IPv6Texts == {"2001:db8::1"}
DomainTexts == {"example.com.", "www.example.com.", "ns.example.com."}
NumberTexts == {"0", "10", "53"}

\* does the rdata of a record of type t parse from the fields d
RdataOK(t, d) ==
    CASE t = TypeA     -> Len(d) = 1 /\ d[1] \in IPv4Texts
      [] t = TypeAAAA  -> Len(d) = 1 /\ d[1] \in IPv6Texts
      [] t \in {TypeCNAME, TypeNS, TypePTR} -> Len(d) = 1 /\ d[1] \in DomainTexts
      [] t = TypeMX    -> Len(d) = 2 /\ d[1] \in NumberTexts /\ d[2] \in DomainTexts
      [] t = TypeSOA   -> Len(d) = 7 /\ d[1] \in DomainTexts /\ d[2] \in DomainTexts
                          /\ \A i \in 3..7 : d[i] \in NumberTexts
      [] t = TypeSRV   -> Len(d) = 4 /\ d[1] \in NumberTexts /\ d[2] \in NumberTexts
                          /\ d[3] \in NumberTexts /\ d[4] \in DomainTexts
      [] t \in {TypeTXT, TypeSPF} -> Len(d) >= 1
      [] OTHER         -> FALSE

NilRR == [Name |-> "", Rrtype |-> 0, Class |-> 0, Ttl |-> 0, Rdata |-> <<>>]

NewRR(s) ==
    IF /\ Len(s) >= 5
       /\ s[1] \in DomainTexts
       /\ s[2] >= 0
       /\ s[3] = "IN"
       /\ s[4] \in DOMAIN StringToType
       /\ RdataOK(StringToType[s[4]], SubSeq(s, 5, Len(s)))
    THEN [rr |-> [Name |-> s[1], Rrtype |-> StringToType[s[4]], Class |-> ClassINET,
                  Ttl |-> s[2], Rdata |-> SubSeq(s, 5, Len(s))],
          err |-> "nil"]
    ELSE [rr |-> NilRR, err |-> "dns: bad rdata"]

\* fmt.Sprintf("%s %d IN %s %s", answer.Name, answer.TTL, t, answer.Data)
Sprintf(answer, t) == <<answer.Name, answer.TTL, "IN", t>> \o answer.Data

(***************************************************************************)
(* DoHQuery, in the two halves that the blocking httpGet call separates.   *)
(***************************************************************************)
NoDeadline == [set |-> FALSE, d |-> Int64(0)]

\* lines 122-136 if the context got a deadline whatever the sign of the timeout
DoHQueryRequestAlwaysDeadline(upstream, name, dnsType) ==
    LET t == typeToString(dnsType) IN
    IF t.err # "nil"
    THEN [err |-> t.err, ctx |-> NoDeadline, url |-> upstream, name |-> name, type |-> ""]
    ELSE [err |-> "nil",
          ctx |-> [set |-> TRUE, d |-> Mul64(timeout, Int64(Second))],
          url |-> upstream, name |-> name, type |-> t.str]

\* lines 122-136 if the context never got a deadline (lines 127-131 left out)
DoHQueryRequestNoDeadline(upstream, name, dnsType) ==
    LET t == typeToString(dnsType) IN
    [err |-> t.err, ctx |-> NoDeadline, url |-> upstream, name |-> name,
     type |-> IF t.err # "nil" THEN "" ELSE t.str]

\* lines 122-136 if the error of typeToString (lines 123-125) were ignored
DoHQueryRequestNoTypeCheck(upstream, name, dnsType) ==
    LET t == typeToString(dnsType) IN
    [err |-> "nil",
     ctx |-> IF IsPos(timeout)
             THEN [set |-> TRUE, d |-> Mul64(timeout, Int64(Second))]
             ELSE NoDeadline,
     url |-> upstream, name |-> name, type |-> t.str]

\* lines 122-136: the type mnemonic, the context and the query parameters
DoHQueryRequest(upstream, name, dnsType) ==
    LET t == typeToString(dnsType) IN
    IF t.err # "nil"
    THEN [err |-> t.err, ctx |-> NoDeadline, url |-> upstream, name |-> name, type |-> ""]
    ELSE [err |-> "nil",
          ctx |-> IF IsPos(timeout)
                  THEN [set |-> TRUE, d |-> Mul64(timeout, Int64(Second))]
                  ELSE NoDeadline,
          url |-> upstream, name |-> name, type |-> t.str]

\* a (nil, err) return of DoHQuery; code is the DoH status the error text carries
Failed(err, code) == [rrs |-> <<>>, err |-> err, code |-> code]

\* lines 152-164 if line 163 put each record before the ones already converted
RECURSIVE AnswerLoopPrepends(_, _, _)
AnswerLoopPrepends(answer, i, rrs) ==
    IF i > Len(answer) THEN [rrs |-> rrs, err |-> "nil", code |-> 0]
    ELSE LET t == typeToString(answer[i].Type) IN
         IF t.err # "nil" THEN Failed(t.err, 0)
         ELSE LET rr == NewRR(Sprintf(answer[i], t.str)) IN
              IF rr.err # "nil" THEN Failed(rr.err, 0)
              ELSE AnswerLoopPrepends(answer, i + 1, <<rr.rr>> \o rrs)

\* lines 152-164: the loop over rr.Answer from entry i on, rrs built so far
RECURSIVE AnswerLoop(_, _, _)
AnswerLoop(answer, i, rrs) ==
    IF i > Len(answer) THEN [rrs |-> rrs, err |-> "nil", code |-> 0]
    ELSE LET t == typeToString(answer[i].Type) IN
         IF t.err # "nil" THEN Failed(t.err, 0)
         ELSE LET rr == NewRR(Sprintf(answer[i], t.str)) IN
              IF rr.err # "nil" THEN Failed(rr.err, 0)
              ELSE AnswerLoop(answer, i + 1, Append(rrs, rr.rr))

\* lines 138-166 without the status check of lines 148-150
DoHQueryStatusIgnored(http) ==
    IF http.err # "nil" THEN Failed(http.err, 0)
    ELSE IF ~http.body.json THEN Failed("invalid character", 0)
    ELSE AnswerLoop(http.body.rr.Answer, 1, <<>>)

\* lines 138-166 if an envelope without answers were an error
DoHQueryEmptyFails(http) ==
    IF http.err # "nil" THEN Failed(http.err, 0)
    ELSE IF ~http.body.json THEN Failed("invalid character", 0)
    ELSE IF http.body.rr.Status # 0
         THEN Failed("DOH failed response code", http.body.rr.Status)
    ELSE IF http.body.rr.Answer = <<>> THEN Failed("no answer", 0)
    ELSE AnswerLoop(http.body.rr.Answer, 1, <<>>)

\* lines 138-166: what DoHQuery returns once httpGet has returned (body, err)
DoHQueryResult(http) ==
    IF http.err # "nil" THEN Failed(http.err, 0)
    ELSE IF ~http.body.json THEN Failed("invalid character", 0)
    ELSE IF http.body.rr.Status # 0
         THEN Failed("DOH failed response code", http.body.rr.Status)
    ELSE AnswerLoop(http.body.rr.Answer, 1, <<>>)

(***************************************************************************)
(* DNS messages and the library calls the handler makes on them.           *)
(***************************************************************************)
\* new(dns.Msg)
NoMsg == [Id |-> 0, Response |-> FALSE, Opcode |-> 0, Rcode |-> 0, Question |-> <<>>,
          Answer |-> <<>>, Compress |-> FALSE]

\* (*Msg).SetReply: the reply header, and the FIRST question of the request
SetReply(request) ==
    [Id |-> request.Id, Response |-> TRUE, Opcode |-> request.Opcode,
     Rcode |-> RcodeSuccess,
     Question |-> IF Len(request.Question) > 0 THEN <<request.Question[1]>> ELSE <<>>,
     Answer |-> <<>>, Compress |-> FALSE]

\* w.WriteMsg(msg): one more datagram to the requester
WriteMsg(w, msg) == Append(w, msg)

\* dns.HandleFailed(w, r): a SERVFAIL reply to r is written to w
HandleFailed(w, r) == WriteMsg(w, [SetReply(r) EXCEPT !.Rcode = RcodeServerFailure])

(***************************************************************************)
(* parseQuery.  st holds the handler's m, wire and calls; the loops are at *)
(* question q and upstream u.  The result stops either where DoHQuery      *)
(* blocks in httpGet (at = "http") or where parseQuery returns (at =       *)
(* "ret").                                                                 *)
(***************************************************************************)
NoCall == [q |-> 0, u |-> 0, ctx |-> NoDeadline, url |-> "", name |-> "", type |-> ""]

\* what httpGet returned when no HTTP request was made
NoEnvelope == [Status |-> 0, Answer |-> <<>>]
NoBody == [json |-> FALSE, rr |-> NoEnvelope]
NoReturn == [err |-> "nil", body |-> NoBody]

\* the last DoHQuery call that returned: its loop position, whether it issued an HTTP
\* request, what httpGet returned after how long, and what DoHQuery returned
NoLast == [q |-> 0, u |-> 0, http |-> FALSE, ret |-> NoReturn, lat |-> Int64(0),
           res |-> Failed("nil", 0)]

\* lines 170-183 from question q and upstream u on, up to the next blocking call;
\* the state so far is evaluated once and named st
RECURSIVE parseQueryFrom(_, _, _, _)
parseQueryFrom(sofar, r, q, u) ==
    LET from(st) ==
        IF q > Len(st.m.Question)
        THEN \* line 183
             [st EXCEPT !.at = "ret", !.wire = HandleFailed(st.wire, r), !.inflight = NoCall]
        ELSE IF u > Len(upstreams)
        THEN parseQueryFrom(st, r, q + 1, 1)
        ELSE LET call == DoHQueryRequest(upstreams[u], st.m.Question[q].Name,
                                         st.m.Question[q].Qtype)
             IN  IF call.err # "nil"
                 THEN \* lines 173-175: DoHQuery returned before any HTTP request
                      parseQueryFrom(
                          [st EXCEPT !.calls = Append(@, [q |-> q, u |-> u, http |-> FALSE,
                                                          st |-> "failed"]),
                                     !.last = [q |-> q, u |-> u, http |-> FALSE,
                                               ret |-> NoReturn, lat |-> Int64(0),
                                               res |-> Failed(call.err, 0)]],
                          r, q, u + 1)
                 ELSE [st EXCEPT !.at = "http",
                                 !.calls = Append(@, [q |-> q, u |-> u, http |-> TRUE,
                                                      st |-> "pending"]),
                                 !.inflight = [q |-> q, u |-> u, ctx |-> call.ctx,
                                               url |-> call.url, name |-> call.name,
                                               type |-> call.type]]
    IN  CHOOSE out \in {from(st) : st \in {sofar}} : TRUE

\* lines 172-180 if line 180 were a continue: the next upstream is called as well
parseQueryResumeContinues(st, r, ret, lat) ==
    LET q == st.inflight.q
        u == st.inflight.u
        n == Len(st.calls)
        res == DoHQueryResult(ret)
        done == [st EXCEPT !.last = [q |-> q, u |-> u, http |-> TRUE, ret |-> ret,
                                     lat |-> lat, res |-> res],
                           !.inflight = NoCall]
    IN  IF res.err # "nil"
        THEN parseQueryFrom([done EXCEPT !.calls[n].st = "failed"], r, q, u + 1)
        ELSE parseQueryFrom([done EXCEPT !.calls[n].st = "ok",
                                         !.m.Answer = @ \o res.rrs], r, q, u + 1)

\* lines 172-180 if line 180 were a break: the loop goes on with the next question
parseQueryResumeBreaks(st, r, ret, lat) ==
    LET q == st.inflight.q
        u == st.inflight.u
        n == Len(st.calls)
        res == DoHQueryResult(ret)
        done == [st EXCEPT !.last = [q |-> q, u |-> u, http |-> TRUE, ret |-> ret,
                                     lat |-> lat, res |-> res],
                           !.inflight = NoCall]
    IN  IF res.err # "nil"
        THEN parseQueryFrom([done EXCEPT !.calls[n].st = "failed"], r, q, u + 1)
        ELSE parseQueryFrom([done EXCEPT !.calls[n].st = "ok",
                                         !.m.Answer = @ \o res.rrs], r, q + 1, 1)

\* lines 172-180 if a failed upstream were tried once more before the next one
parseQueryResumeRetries(st, r, ret, lat) ==
    LET q == st.inflight.q
        u == st.inflight.u
        n == Len(st.calls)
        res == DoHQueryResult(ret)
        again == n = 1 \/ st.calls[n - 1].u # u
        done == [st EXCEPT !.last = [q |-> q, u |-> u, http |-> TRUE, ret |-> ret,
                                     lat |-> lat, res |-> res],
                           !.inflight = NoCall]
    IN  IF res.err # "nil"
        THEN parseQueryFrom([done EXCEPT !.calls[n].st = "failed"], r, q,
                            IF again THEN u ELSE u + 1)
        ELSE [done EXCEPT !.at = "ret",
                          !.calls[n].st = "ok",
                          !.m.Answer = @ \o res.rrs]

\* lines 172-180 once httpGet has returned ret after lat and DoHQuery has returned
parseQueryResume(st, r, ret, lat) ==
    LET q == st.inflight.q
        u == st.inflight.u
        n == Len(st.calls)
        res == DoHQueryResult(ret)
        done == [st EXCEPT !.last = [q |-> q, u |-> u, http |-> TRUE, ret |-> ret,
                                     lat |-> lat, res |-> res],
                           !.inflight = NoCall]
    IN  IF res.err # "nil"
        THEN parseQueryFrom([done EXCEPT !.calls[n].st = "failed"], r, q, u + 1)
        ELSE [done EXCEPT !.at = "ret",
                          !.calls[n].st = "ok",
                          !.m.Answer = @ \o res.rrs]

\* lines 196-201: the opcode switch and the final w.WriteMsg(m)
handleTail(st, r) ==
    IF st.at = "ret" THEN [st EXCEPT !.at = "done", !.wire = WriteMsg(@, st.m)]
    ELSE st

\* lines 186-202 without the check of lines 187-190
handleDnsRequestNoCheck(w, r) ==
    LET st == [at |-> "ret", m |-> SetReply(r), wire |-> w, calls |-> <<>>,
               inflight |-> NoCall, last |-> NoLast]
    IN  IF r.Opcode = OpcodeQuery
        THEN handleTail(parseQueryFrom(st, r, 1, 1), r)
        ELSE handleTail(st, r)

\* lines 186-202 if m were left as new(dns.Msg) made it (no SetReply at line 193)
handleDnsRequestNoSetReply(w, r) ==
    IF Len(r.Question) = 0
    THEN [at |-> "done", m |-> NoMsg, wire |-> HandleFailed(w, r), calls |-> <<>>,
          inflight |-> NoCall, last |-> NoLast]
    ELSE LET st == [at |-> "ret", m |-> [NoMsg EXCEPT !.Question = r.Question],
                    wire |-> w, calls |-> <<>>, inflight |-> NoCall, last |-> NoLast]
         IN  IF r.Opcode = OpcodeQuery
             THEN handleTail(parseQueryFrom(st, r, 1, 1), r)
             ELSE handleTail(st, r)

\* lines 186-202 up to the first blocking call
handleDnsRequest(w, r) ==
    IF Len(r.Question) = 0
    THEN [at |-> "done", m |-> NoMsg, wire |-> HandleFailed(w, r), calls |-> <<>>,
          inflight |-> NoCall, last |-> NoLast]
    ELSE LET st == [at |-> "ret", m |-> SetReply(r), wire |-> w, calls |-> <<>>,
                    inflight |-> NoCall, last |-> NoLast]
         IN  IF r.Opcode = OpcodeQuery
             THEN handleTail(parseQueryFrom(st, r, 1, 1), r)
             ELSE handleTail(st, r)

(***************************************************************************)
(* Inputs: the configuration, the requests and what an upstream may do.    *)
(***************************************************************************)
SeqsUpTo(S, n) == UNION {[1..k -> S] : k \in 0..n}

UpstreamURLs == <<"https://u1/dns-query", "https://u2/dns-query", "https://u3/dns-query">>

\* values of the -timeout flag: -1ns, 0, the default 10 (ns), "10s" and "20s"
Timeouts == {Int64(-1), Int64(0), Int64(DefaultTimeout),
             Mul64(Int64(10), Int64(Second)), Mul64(Int64(20), Int64(Second))}

QuestionSet == {[Name |-> "example.com.", Qtype |-> TypeA],
                [Name |-> "www.example.com.", Qtype |-> TypeSRV]}

Requests == {[Id |-> id, Response |-> FALSE, Opcode |-> op, Rcode |-> RcodeSuccess,
              Question |-> qs, Answer |-> <<>>, Compress |-> FALSE] :
                id \in {4660, 22136}, op \in {OpcodeQuery, OpcodeNotify},
                qs \in SeqsUpTo(QuestionSet, MaxQuestions)}

\* answer entries of a DoH JSON body: two different ones that convert, one whose
\* data does not parse for its type, one whose type typeToString does not know
AnswerSet == {[Name |-> "example.com.", Type |-> TypeA, TTL |-> 300,
               Data |-> <<"93.184.216.34">>],
              [Name |-> "www.example.com.", Type |-> TypeA, TTL |-> 60,
               Data |-> <<"192.0.2.1">>],
              [Name |-> "example.com.", Type |-> TypeA, TTL |-> 300,
               Data |-> <<"2001:db8::1">>],
              [Name |-> "example.com.", Type |-> TypeSRV, TTL |-> 300,
               Data |-> <<"0", "10", "53", "ns.example.com.">>]}

\* the entries that lines 154-162 turn into a record
Convertible ==
    {a \in AnswerSet :
        /\ typeToString(a.Type).err = "nil"
        /\ NewRR(Sprintf(a, typeToString(a.Type).str)).err = "nil"}

\* what httpGet may read: a body that is no JSON, a Response envelope of status 0
\* with any answer list, or one of status 2 (SERVFAIL) with answers that would all
\* convert
Bodies == {NoBody}
          \cup {[json |-> TRUE, rr |-> [Status |-> 0, Answer |-> an]] :
                  an \in SeqsUpTo(AnswerSet, MaxAnswers)}
          \cup {[json |-> TRUE, rr |-> [Status |-> 2, Answer |-> an]] :
                  an \in SeqsUpTo(Convertible, MaxAnswers)}

\* the bodies of at most one answer
ShortBodies == {b \in Bodies : Len(b.rr.Answer) <= 1}

\* how long an upstream takes to answer: 1ms, or about 95 years (3 * 10^18 ns)
Latencies == {Int64(1000000), Mul64(Int64(2000000000), Int64(1500000000))}

\* what an upstream may answer and after how long: any body after 1ms, a short
\* body after either time
Responses(B) ==
    {r \in [body : B, lat : Latencies] :
        r.lat = Int64(1000000) \/ r.body \in ShortBodies}

(***************************************************************************)
(* main.  The process is at "start" (flags parsed, line 207), at "serving" *)
(* (blocked in server.ListenAndServe, line 214), at "fatal" (log.Fatal has *)
(* ended it) or at "killed" (a signal has ended it).  ListenAndServe       *)
(* returns only an error while the server serves: it returns nil once      *)
(* Shutdown has been called, and the only call of Shutdown is the one of   *)
(* line 223, after it.  signal.Notify (line 220) has therefore not run     *)
(* when a signal reaches the serving process, and SIGINT and SIGTERM take  *)
(* their default action: the Go runtime ends the process.                  *)
(***************************************************************************)
Started == [pc |-> "start", opened |-> FALSE, listening |-> FALSE, shutdown |-> FALSE,
            sig |-> "none"]

Serving == [pc |-> "serving", opened |-> TRUE, listening |-> TRUE, shutdown |-> FALSE,
            sig |-> "none"]

\* lines 205-216 without the check of lines 207-209
mainStartNoCheck(p, ups, bindErr) ==
    IF bindErr THEN [p EXCEPT !.pc = "fatal"]
    ELSE [p EXCEPT !.pc = "serving", !.opened = TRUE, !.listening = TRUE]

\* lines 205-216, up to where ListenAndServe fails to open the socket or blocks
mainStart(p, ups, bindErr) ==
    IF Len(ups) = 0 THEN [p EXCEPT !.pc = "fatal"]
    ELSE IF bindErr THEN [p EXCEPT !.pc = "fatal"]
    ELSE [p EXCEPT !.pc = "serving", !.opened = TRUE, !.listening = TRUE]

\* lines 214-216: ListenAndServe returns a read error while serving
mainServeFailed(p) == [p EXCEPT !.pc = "fatal", !.listening = FALSE]

\* a SIGINT or SIGTERM reaches the process blocked at line 214
mainSignal(p, sig) == [p EXCEPT !.pc = "killed", !.listening = FALSE, !.sig = sig]

(***************************************************************************)
(* The state machine.  Every variable but the configuration is a function  *)
(* of the handler (one goroutine per request).                             *)
(***************************************************************************)
Handlers == DOMAIN pc

NoProbe == [code |-> 0, out |-> typeToString(0)]

InitWith(H) ==
    /\ \E n \in 1..MaxUpstreams : upstreams = SubSeq(UpstreamURLs, 1, n)
    /\ timeout \in Timeouts
    /\ req \in [H -> Requests]
    /\ pc = [h \in H |-> "recv"]
    /\ m = [h \in H |-> NoMsg]
    /\ wire = [h \in H |-> <<>>]
    /\ calls = [h \in H |-> <<>>]
    /\ inflight = [h \in H |-> NoCall]
    /\ last = [h \in H |-> NoLast]
    /\ probe = NoProbe
    /\ proc = Serving

Init == InitWith({1})

\* the handler's local state as parseQuery's operators take it
Local(h) == [at |-> pc[h], m |-> m[h], wire |-> wire[h], calls |-> calls[h],
             inflight |-> inflight[h], last |-> last[h]]

\* a handler that finishes moves the first upstream to the end of the list
StoreRotates(h, st) ==
    \E s \in {st} :
        /\ pc' = [pc EXCEPT ![h] = s.at]
        /\ m' = [m EXCEPT ![h] = s.m]
        /\ wire' = [wire EXCEPT ![h] = s.wire]
        /\ calls' = [calls EXCEPT ![h] = s.calls]
        /\ inflight' = [inflight EXCEPT ![h] = s.inflight]
        /\ last' = [last EXCEPT ![h] = s.last]
        /\ upstreams' = IF s.at = "done" THEN Tail(upstreams) \o <<Head(upstreams)>>
                                          ELSE upstreams
        /\ UNCHANGED <<timeout, req, probe, proc>>

\* what a step of handler h writes: its own locals and nothing else
Store(h, st) ==
    \E s \in {st} :
        /\ pc' = [pc EXCEPT ![h] = s.at]
        /\ m' = [m EXCEPT ![h] = s.m]
        /\ wire' = [wire EXCEPT ![h] = s.wire]
        /\ calls' = [calls EXCEPT ![h] = s.calls]
        /\ inflight' = [inflight EXCEPT ![h] = s.inflight]
        /\ last' = [last EXCEPT ![h] = s.last]
        /\ UNCHANGED <<upstreams, timeout, req, probe, proc>>

\* the server hands over a request only when no handler is blocked in an upstream call
ReceiveSerial(h) ==
    /\ pc[h] = "recv"
    /\ \A g \in Handlers : pc[g] # "http"
    /\ Store(h, handleDnsRequest(wire[h], req[h]))

\* the server hands the decoded request to handleDnsRequest, in a goroutine of its own
Receive(h) ==
    /\ pc[h] = "recv"
    /\ Store(h, handleDnsRequest(wire[h], req[h]))

\* httpGet returns (body, err) to DoHQuery, which returns to parseQuery
HttpReturn(h, ret, lat) ==
    \E st \in {parseQueryResume(Local(h), req[h], ret, lat)} :
        Store(h, handleTail(st, req[h]))

\* the upstream answers a body of B after lat, before the deadline of the context if any
HttpRespondFrom(h, B) ==
    /\ pc[h] = "http"
    /\ \E r \in Responses(B) :
          /\ inflight[h].ctx.set =>
                IsPos(inflight[h].ctx.d) /\ LeqNonNeg(r.lat, inflight[h].ctx.d)
          /\ HttpReturn(h, [err |-> "nil", body |-> r.body], r.lat)

HttpRespond(h) == HttpRespondFrom(h, Bodies)

\* the transport fails (connection refused, TLS failure, ...)
HttpTransportError(h) ==
    /\ pc[h] = "http"
    /\ inflight[h].ctx.set => IsPos(inflight[h].ctx.d)
    /\ HttpReturn(h, [err |-> "connection refused", body |-> NoBody], Int64(0))

\* the deadline of the context passes first: client.Do is cancelled
HttpDeadline(h) ==
    /\ pc[h] = "http"
    /\ inflight[h].ctx.set
    /\ HttpReturn(h, [err |-> "context deadline exceeded", body |-> NoBody],
                  IF IsPos(inflight[h].ctx.d) THEN inflight[h].ctx.d ELSE Int64(0))

Next ==
    \/ \E h \in Handlers : Receive(h)
    \/ \E h \in Handlers : HttpRespond(h)
    \/ \E h \in Handlers : HttpTransportError(h)
    \/ \E h \in Handlers : HttpDeadline(h)

Spec == Init /\ [][Next]_vars

(***************************************************************************)
(* The type mapper on its own: typeToString applied to every uint16 code,  *)
(* one code after the other.  No request is handled.                       *)
(***************************************************************************)
InitType ==
    /\ upstreams = SubSeq(UpstreamURLs, 1, 1)
    /\ timeout = Int64(DefaultTimeout)
    /\ req = <<>>
    /\ pc = <<>>
    /\ m = <<>>
    /\ wire = <<>>
    /\ calls = <<>>
    /\ inflight = <<>>
    /\ last = <<>>
    /\ probe = NoProbe
    /\ proc = Serving

ProbeType ==
    /\ probe.code < Uint16Max
    /\ probe' = [code |-> probe.code + 1, out |-> typeToString(probe.code + 1)]
    /\ UNCHANGED <<upstreams, timeout, req, pc, m, wire, calls, inflight, last, proc>>

NextType == ProbeType

SpecType == InitType /\ [][NextType]_vars

(***************************************************************************)
(* Two requests handled at the same time, each by its own goroutine (the   *)
(* server starts one per packet read).  The steps of the two handlers      *)
(* interleave in every order.  The requests have one question each and the *)
(* bodies at most one answer.                                              *)
(***************************************************************************)
ConcHandlers == {1, 2}

InitConc ==
    /\ InitWith(ConcHandlers)
    /\ timeout \in {Int64(0), Int64(DefaultTimeout)}
    /\ \A h \in ConcHandlers : Len(req[h].Question) = 1
    /\ req[1].Id # req[2].Id

NextShort ==
    \/ \E h \in Handlers : Receive(h)
    \/ \E h \in Handlers : HttpRespondFrom(h, ShortBodies)
    \/ \E h \in Handlers : HttpTransportError(h)
    \/ \E h \in Handlers : HttpDeadline(h)

SpecConc == InitConc /\ [][NextShort]_vars

(***************************************************************************)
(* One request under the scheduling the runtime gives: the goroutine of a   *)
(* received request runs, and the timer of a context with a deadline fires  *)
(* unless the HTTP call returns before it.  Nothing else is assumed: an     *)
(* upstream may never respond, and a call without a deadline need not       *)
(* return.  The bodies are the short ones.                                  *)
(***************************************************************************)
SpecLive ==
    /\ Init
    /\ [][NextShort]_vars
    /\ WF_vars(Receive(1))
    /\ WF_vars(HttpDeadline(1))

(***************************************************************************)
(* The process from its start: main runs, requests arrive while the server *)
(* serves, and the handlers run as long as the process lives.              *)
(***************************************************************************)
InitMain ==
    /\ \E n \in 0..MaxUpstreams : upstreams = SubSeq(UpstreamURLs, 1, n)
    /\ timeout \in Timeouts
    /\ req \in [{1} -> Requests]
    /\ pc = [h \in {1} |-> "wait"]
    /\ m = [h \in {1} |-> NoMsg]
    /\ wire = [h \in {1} |-> <<>>]
    /\ calls = [h \in {1} |-> <<>>]
    /\ inflight = [h \in {1} |-> NoCall]
    /\ last = [h \in {1} |-> NoLast]
    /\ probe = NoProbe
    /\ proc = Started

MainStart ==
    /\ proc.pc = "start"
    /\ \E bindErr \in BOOLEAN : proc' = mainStart(proc, upstreams, bindErr)
    /\ UNCHANGED <<upstreams, timeout, req, pc, m, wire, calls, inflight, last, probe>>

MainServeFailed ==
    /\ proc.pc = "serving"
    /\ proc' = mainServeFailed(proc)
    /\ UNCHANGED <<upstreams, timeout, req, pc, m, wire, calls, inflight, last, probe>>

Signal ==
    /\ proc.pc = "serving"
    /\ \E sig \in {"SIGINT", "SIGTERM"} : proc' = mainSignal(proc, sig)
    /\ UNCHANGED <<upstreams, timeout, req, pc, m, wire, calls, inflight, last, probe>>

\* the server reads a request from the open socket and starts its handler
Arrive(h) ==
    /\ proc.pc = "serving" /\ proc.listening
    /\ pc[h] = "wait"
    /\ pc' = [pc EXCEPT ![h] = "recv"]
    /\ UNCHANGED <<upstreams, timeout, req, m, wire, calls, inflight, last, probe, proc>>

NextMain ==
    \/ MainStart
    \/ MainServeFailed
    \/ Signal
    \/ \E h \in Handlers : Arrive(h)
    \/ \E h \in Handlers : proc.pc = "serving" /\ Receive(h)
    \/ \E h \in Handlers : proc.pc = "serving" /\ HttpRespond(h)
    \/ \E h \in Handlers : proc.pc = "serving" /\ HttpTransportError(h)
    \/ \E h \in Handlers : proc.pc = "serving" /\ HttpDeadline(h)

SpecMain == InitMain /\ [][NextMain]_vars

(***************************************************************************)
(* Vocabulary of the properties.                                           *)
(***************************************************************************)
SupportedTypes == {TypeA, TypeAAAA, TypeCNAME, TypeMX, TypeTXT, TypeSPF, TypeNS,
                   TypeSOA, TypePTR, TypeANY}

IsFailure(msg) == msg.Response /\ msg.Rcode = RcodeServerFailure
IsSuccess(msg) == msg.Response /\ msg.Rcode = RcodeSuccess

Written(h) == {wire[h][i] : i \in 1..Len(wire[h])}

IsQuery(h) == req[h].Opcode = OpcodeQuery /\ Len(req[h].Question) > 0

AllFailed(h) == \A i \in 1..Len(calls[h]) : calls[h][i].st = "failed"

\* the last DoHQuery call of h to return got a decoded envelope from its upstream
GotEnvelope(h) == last[h].http /\ last[h].ret.err = "nil" /\ last[h].ret.body.json

\* the answer entry a converts: its type has a mnemonic and its data parses
Converts(a) == a.Type \in SupportedTypes /\ RdataOK(a.Type, a.Data)

\* the record rr is the answer entry a
SameRecord(rr, a) ==
    /\ rr.Name = a.Name
    /\ rr.Rrtype = a.Type
    /\ rr.Class = ClassINET
    /\ rr.Ttl = a.TTL
    /\ rr.Rdata = a.Data

(***************************************************************************)
(* C1: for a QUERY request the upstreams are called in configured order    *)
(* from the first one, every call but the last one made has failed (a      *)
(* failure is followed by the next call, a success by none), the loop ends *)
(* without a success only when every upstream was called, and after a      *)
(* success the reply's answer list is exactly the records of the call that *)
(* succeeded.                                                              *)
(***************************************************************************)
C1_FirstSuccessWins ==
    \A h \in Handlers : IsQuery(h) =>
        LET cs == calls[h]
            n == Len(cs)
            nu == Len(upstreams)
        IN  /\ \A i \in 1..n : /\ cs[i].u = ((i - 1) % nu) + 1
                               /\ cs[i].q = ((i - 1) \div nu) + 1
            /\ \A i \in 1..(n - 1) : cs[i].st = "failed"
            /\ pc[h] = "http" => n > 0 /\ cs[n].st = "pending"
            /\ pc[h] = "done" => n > 0 /\ cs[n].st \in {"ok", "failed"}
            /\ (pc[h] = "done" /\ cs[n].st = "failed") => n = nu * Len(m[h].Question)
            /\ (pc[h] = "done" /\ cs[n].st = "ok") =>
                  /\ last[h].u = cs[n].u /\ last[h].q = cs[n].q
                  /\ last[h].res.err = "nil"
                  /\ m[h].Answer = last[h].res.rrs
                  /\ wire[h] # <<>>
                  /\ wire[h][Len(wire[h])].Answer = last[h].res.rrs
            /\ (n > 0 /\ cs[n].st # "ok") => m[h].Answer = <<>>

\* the second upstream answered after the first one failed
C1_Witness ==
    \E h \in Handlers :
        /\ IsQuery(h) /\ pc[h] = "done"
        /\ Len(calls[h]) = 2
        /\ calls[h][1].st = "failed" /\ calls[h][2].st = "ok"
        /\ Len(m[h].Answer) = 2

(***************************************************************************)
(* C2: when every upstream has failed for a QUERY request, the requester   *)
(* gets a SERVFAIL response with the request's transaction ID and gets no  *)
(* message with a success response code.                                   *)
(***************************************************************************)
C2_AllFailOnlyServfail ==
    \A h \in Handlers : (IsQuery(h) /\ pc[h] = "done" /\ AllFailed(h)) =>
        /\ \E msg \in Written(h) : IsFailure(msg) /\ msg.Id = req[h].Id
        /\ \A msg \in Written(h) : ~IsSuccess(msg)

(***************************************************************************)
(* C3: a request handled to completion has had exactly one message written *)
(* to its requester.                                                       *)
(***************************************************************************)
C3_ExactlyOneMessage ==
    \A h \in Handlers : pc[h] = "done" => Len(wire[h]) = 1

(***************************************************************************)
(* C4: a request with zero questions gets a SERVFAIL response and nothing  *)
(* else, and no DoHQuery call is made for it, whatever its opcode and the  *)
(* upstream list.                                                          *)
(***************************************************************************)
C4_NoQuestionFails ==
    \A h \in Handlers : (Len(req[h].Question) = 0 /\ pc[h] = "done") =>
        /\ wire[h] # <<>>
        /\ \A msg \in Written(h) : IsFailure(msg) /\ msg.Id = req[h].Id
        /\ calls[h] = <<>>

\* a NOTIFY without questions was refused while two upstreams were configured
C4_Witness ==
    \E h \in Handlers :
        /\ Len(req[h].Question) = 0 /\ req[h].Opcode = OpcodeNotify
        /\ Len(upstreams) = 2
        /\ pc[h] = "done" /\ Len(wire[h]) = 1 /\ IsFailure(wire[h][1])

(***************************************************************************)
(* C5: a request with a question whose opcode is not QUERY gets a SERVFAIL *)
(* response, and no DoHQuery call is made for it.                          *)
(***************************************************************************)
C5_NonQueryFails ==
    \A h \in Handlers :
        (Len(req[h].Question) > 0 /\ req[h].Opcode # OpcodeQuery /\ pc[h] = "done") =>
            /\ wire[h] # <<>>
            /\ \A msg \in Written(h) : IsFailure(msg)
            /\ calls[h] = <<>>

(***************************************************************************)
(* C6: the questions are taken in order; a call that succeeds is the last  *)
(* call made (no later upstream, no later question); the answer list holds *)
(* the records of at most one question, those of the call that succeeded;  *)
(* and a SERVFAIL response is written for a QUERY only when every call     *)
(* made, for every question attempted, has failed.                         *)
(***************************************************************************)
C6_OneQuestionAnswered ==
    \A h \in Handlers : IsQuery(h) =>
        LET cs == calls[h]
            n == Len(cs)
        IN  /\ \A i, j \in 1..n : i < j => cs[i].q <= cs[j].q
            /\ \A i \in 1..n : cs[i].st = "ok" => i = n /\ pc[h] = "done"
            /\ m[h].Answer # <<>> =>
                  /\ n > 0 /\ cs[n].st = "ok"
                  /\ last[h].q = cs[n].q
                  /\ m[h].Answer = last[h].res.rrs
            /\ (\E msg \in Written(h) : IsFailure(msg)) => AllFailed(h)

\* a request with two questions was answered from its first question
C6_Witness ==
    \E h \in Handlers :
        /\ IsQuery(h) /\ Len(req[h].Question) = 2
        /\ pc[h] = "done"
        /\ calls[h][Len(calls[h])].st = "ok" /\ calls[h][Len(calls[h])].q = 1
        /\ m[h].Answer # <<>>
        /\ \A msg \in Written(h) : IsSuccess(msg)

(***************************************************************************)
(* C7: typeToString gives each code of the supported set its own mnemonic  *)
(* (the one the DNS library reads back as that code) and an error for      *)
(* every other 16-bit code.                                                *)
(***************************************************************************)
C7_TypeMapper ==
    LET c == probe.code IN
    /\ c \in 0..Uint16Max
    /\ probe.out = typeToString(c)
    /\ c \in SupportedTypes =>
          /\ probe.out.err = "nil"
          /\ probe.out.str \in DOMAIN StringToType
          /\ StringToType[probe.out.str] = c
          /\ \A d \in SupportedTypes \ {c} : typeToString(d).str # probe.out.str
    /\ c \notin SupportedTypes => probe.out.err # "nil"

\* C7 as first stated: the above, and code 99 yields an error
C7_AsClaimed ==
    /\ C7_TypeMapper
    /\ probe.code = 99 => probe.out.err # "nil"

\* code 99 was mapped: it is SPF
C7_Witness == probe.code = TypeSPF /\ probe.out.err = "nil" /\ probe.out.str = "SPF"

(***************************************************************************)
(* C8: a decoded envelope with a non-zero status makes the DoHQuery call   *)
(* fail with an error carrying that status and return no records, whatever *)
(* its answer list holds; that call is counted as failed and none of its   *)
(* answers is in the reply.                                                *)
(***************************************************************************)
C8_NonZeroStatusFails ==
    \A h \in Handlers :
        (GotEnvelope(h) /\ last[h].ret.body.rr.Status # 0) =>
            /\ last[h].res.err # "nil"
            /\ last[h].res.code = last[h].ret.body.rr.Status
            /\ last[h].res.rrs = <<>>
            /\ \E i \in 1..Len(calls[h]) :
                  /\ calls[h][i].u = last[h].u /\ calls[h][i].q = last[h].q
                  /\ calls[h][i].st = "failed"
            /\ m[h].Answer = <<>>
            /\ \A msg \in Written(h) : msg.Answer = <<>>

\* the only upstream rejected the query with status 2 and two convertible answers
C8_Witness ==
    \E h \in Handlers :
        /\ GotEnvelope(h) /\ last[h].ret.body.rr.Status = 2
        /\ Len(last[h].ret.body.rr.Answer) = 2
        /\ \A i \in 1..2 : Converts(last[h].ret.body.rr.Answer[i])
        /\ pc[h] = "done"

(***************************************************************************)
(* C9: a DoHQuery call returns an error and no records, or one record per  *)
(* answer entry of the envelope, in the envelope's order; an entry that    *)
(* does not convert, at any position, makes the call fail, so that none of *)
(* the envelope's records is returned or is in the reply.                  *)
(***************************************************************************)
C9_AllOrNothing ==
    \A h \in Handlers : last[h].http =>
        LET res == last[h].res
            an == last[h].ret.body.rr.Answer
        IN  /\ \/ res.err # "nil" /\ res.rrs = <<>>
               \/ /\ res.err = "nil"
                  /\ GotEnvelope(h)
                  /\ Len(res.rrs) = Len(an)
                  /\ \A i \in 1..Len(an) : SameRecord(res.rrs[i], an[i])
            /\ (GotEnvelope(h) /\ \E i \in 1..Len(an) : ~Converts(an[i])) =>
                  /\ res.err # "nil"
                  /\ res.rrs = <<>>
                  /\ m[h].Answer = <<>>
                  /\ \A msg \in Written(h) : msg.Answer = <<>>

\* an envelope whose first entry converts and whose second does not
C9_Witness ==
    \E h \in Handlers :
        /\ GotEnvelope(h) /\ last[h].ret.body.rr.Status = 0
        /\ Len(last[h].ret.body.rr.Answer) = 2
        /\ Converts(last[h].ret.body.rr.Answer[1])
        /\ ~Converts(last[h].ret.body.rr.Answer[2])
        /\ last[h].res.err # "nil"
        /\ pc[h] = "done"

(***************************************************************************)
(* C10: with a positive timeout every HTTP call has a deadline, no call    *)
(* delivers a body later than the configured timeout (in seconds) after it *)
(* started, a call the deadline cancels fails and the next upstream in     *)
(* order is called; with a zero or negative timeout a call has no deadline *)
(* and ends only by the upstream's response or a transport failure.        *)
(***************************************************************************)
C10_Deadline ==
    \A h \in Handlers :
        /\ IsPos(timeout) =>
              /\ pc[h] = "http" => inflight[h].ctx.set
              /\ (last[h].http /\ last[h].ret.err = "nil") =>
                    LeqNonNeg(Widen(last[h].lat), MulExact(timeout, Int64(Second)))
              /\ (last[h].http /\ last[h].ret.err = "context deadline exceeded") =>
                    /\ last[h].res.err # "nil"
                    /\ last[h].res.rrs = <<>>
                    /\ last[h].u < Len(upstreams) =>
                          /\ pc[h] = "http"
                          /\ inflight[h].q = last[h].q
                          /\ inflight[h].u = last[h].u + 1
                          /\ inflight[h].url = upstreams[last[h].u + 1]
        /\ ~IsPos(timeout) =>
              /\ pc[h] = "http" => ~inflight[h].ctx.set
              /\ last[h].http => last[h].ret.err \in {"nil", "connection refused"}

\* the first upstream was cancelled at its deadline and the second is being called
C10_Witness ==
    \E h \in Handlers :
        /\ timeout = Int64(DefaultTimeout)
        /\ last[h].http /\ last[h].ret.err = "context deadline exceeded"
        /\ last[h].u = 1
        /\ pc[h] = "http" /\ inflight[h].u = 2

(***************************************************************************)
(* C14: while one request is handled at most one DoHQuery call is pending  *)
(* (the one the handler is blocked in), no upstream is called twice, and   *)
(* the calls made never outnumber the configured upstreams.                *)
(***************************************************************************)
C14_SequentialNoRetry ==
    \A h \in Handlers :
        LET cs == calls[h]
            n == Len(cs)
        IN  /\ Cardinality({i \in 1..n : cs[i].st = "pending"})
                  = (IF pc[h] = "http" THEN 1 ELSE 0)
            /\ \A i \in 1..n : cs[i].st = "pending" =>
                  /\ i = n
                  /\ inflight[h].u = cs[i].u /\ inflight[h].q = cs[i].q
            /\ \A i, j \in 1..n : i # j => cs[i].u # cs[j].u
            /\ n <= Len(upstreams)

\* every one of two upstreams was called and failed, the second after an HTTP call
C14_Witness ==
    \E h \in Handlers :
        /\ pc[h] = "done" /\ Len(upstreams) = 2
        /\ Len(calls[h]) = 2 /\ AllFailed(h)
        /\ last[h].http

(***************************************************************************)
(* C12: while a handler is blocked in an upstream call, every other handler *)
(* can take its next step: one that was not started can start and make its  *)
(* own upstream call, one that is itself in an upstream call can get its    *)
(* result and write its reply.                                              *)
(***************************************************************************)
C12_HandlersIndependent ==
    \A g \in Handlers : \A h \in Handlers \ {g} :
        pc[g] = "http" =>
            /\ pc[h] = "recv" => ENABLED Receive(h)
            /\ pc[h] = "http" =>
                  ENABLED (HttpRespondFrom(h, ShortBodies) \/ HttpTransportError(h))

\* one handler is still blocked in its upstream call, the other one made its own
\* upstream call after it and has sent its answer
C12_Witness ==
    \E g \in Handlers : \E h \in Handlers \ {g} :
        /\ pc[g] = "http"
        /\ pc[h] = "done" /\ last[h].http
        /\ Len(wire[h]) = 1 /\ IsSuccess(wire[h][1])

(***************************************************************************)
(* C17: a step of one handler leaves the upstream list, the timeout and the *)
(* locals of every other handler unchanged, and whatever the other handlers *)
(* did, the i-th DoHQuery call of a request is for its first question and   *)
(* goes to the i-th configured upstream, starting from the first.           *)
(***************************************************************************)
C17_NoSharedState ==
    [][ /\ upstreams' = upstreams
        /\ timeout' = timeout
        /\ \A h \in Handlers : Local(h)' # Local(h) =>
              \A g \in Handlers \ {h} : Local(g)' = Local(g)
        /\ \A h \in Handlers : \A i \in 1..Len(calls'[h]) :
              /\ calls'[h][i].u = i
              /\ calls'[h][i].q = 1
        /\ \A h \in Handlers : pc'[h] = "http" =>
              inflight'[h].url = upstreams[inflight'[h].u] ]_vars

\* one handler is done after its call to the first upstream failed, and the other
\* handler's first call is to the first upstream again
C17_Witness ==
    \E g \in Handlers : \E h \in Handlers \ {g} :
        /\ pc[g] = "done" /\ Len(calls[g]) >= 1 /\ calls[g][1].st = "failed"
        /\ pc[h] = "http" /\ Len(calls[h]) = 1 /\ inflight[h].u = 1
        /\ inflight[h].url = upstreams[1]

(***************************************************************************)
(* C15: a handler that has not finished is either ready to run or blocked   *)
(* in the HTTP call, and with a positive -timeout every request received    *)
(* eventually has a DNS message written to its requester.                   *)
(***************************************************************************)
C15_EventuallyAnswered ==
    /\ [](\A h \in Handlers :
            /\ pc[h] \in {"recv", "http", "done"}
            /\ pc[h] = "recv" => ENABLED Receive(h))
    /\ \A h \in {1} :
          IsPos(timeout) => <>(pc[h] = "done" /\ Len(wire[h]) >= 1)

\* with a positive timeout the last upstream never responded, the call was cancelled
\* at its deadline and the requester got a message
C15_Witness ==
    \E h \in Handlers :
        /\ IsPos(timeout)
        /\ pc[h] = "done" /\ Len(wire[h]) >= 1
        /\ last[h].http /\ last[h].ret.err = "context deadline exceeded"

(***************************************************************************)
(* C16: with a positive -timeout the deadline of every HTTP call is the    *)
(* exact product timeout * time.Second: positive and not wrapped.          *)
(***************************************************************************)
C16_DeadlineIsExactProduct ==
    \A h \in Handlers : (IsPos(timeout) /\ pc[h] = "http") =>
        /\ inflight[h].ctx.set
        /\ IsPos(inflight[h].ctx.d)
        /\ Widen(inflight[h].ctx.d) = MulExact(timeout, Int64(Second))

(***************************************************************************)
(* C18: every message written to the requester carries the request's       *)
(* transaction ID and is a response; one with a success code has           *)
(* compression off and holds exactly the records the request's successful  *)
(* DoHQuery call returned (none when no call succeeded).                   *)
(***************************************************************************)
C18_ReplyHeader ==
    \A h \in Handlers : \A msg \in Written(h) :
        /\ msg.Id = req[h].Id
        /\ msg.Response
        /\ msg.Opcode = req[h].Opcode
        /\ IsSuccess(msg) =>
              /\ ~msg.Compress
              /\ msg.Answer = IF calls[h] # <<>> /\ calls[h][Len(calls[h])].st = "ok"
                              THEN last[h].res.rrs
                              ELSE <<>>

\* a reply with two records for the request with the second transaction ID
C18_Witness ==
    \E h \in Handlers :
        /\ req[h].Id = 22136 /\ pc[h] = "done"
        /\ Len(wire[h]) = 1 /\ IsSuccess(wire[h][1])
        /\ Len(wire[h][1].Answer) = 2

(***************************************************************************)
(* C19: when the type of the question handled is outside the supported set *)
(* every DoHQuery call (one per upstream) fails before an HTTP request is  *)
(* issued, the handler never waits, and HandleFailed writes a SERVFAIL.    *)
(***************************************************************************)
C19_UnsupportedQuestion ==
    \A h \in Handlers :
        (IsQuery(h) /\ req[h].Question[1].Qtype \notin SupportedTypes) =>
            /\ pc[h] # "http"
            /\ \A i \in 1..Len(calls[h]) : ~calls[h][i].http /\ calls[h][i].st = "failed"
            /\ pc[h] = "done" =>
                  /\ Len(calls[h]) = Len(upstreams)
                  /\ ~last[h].http
                  /\ last[h].res.err = "Unsupported type"
                  /\ \E msg \in Written(h) : IsFailure(msg)
                  /\ \A msg \in Written(h) : msg.Answer = <<>>

\* an SRV question was refused by both upstreams' calls without an HTTP request
C19_Witness ==
    \E h \in Handlers :
        /\ IsQuery(h) /\ req[h].Question[1].Qtype = TypeSRV
        /\ pc[h] = "done" /\ Len(calls[h]) = 2
        /\ \E msg \in Written(h) : IsFailure(msg)

(***************************************************************************)
(* C20: an envelope with status 0 and no answers is a success: that call   *)
(* is the last one made, and the requester gets exactly one message, a     *)
(* success reply without records.                                          *)
(***************************************************************************)
C20_EmptyAnswerSucceeds ==
    \A h \in Handlers :
        (/\ GotEnvelope(h)
         /\ last[h].ret.body.rr.Status = 0
         /\ last[h].ret.body.rr.Answer = <<>>) =>
            /\ last[h].res.err = "nil"
            /\ pc[h] = "done"
            /\ calls[h][Len(calls[h])].st = "ok"
            /\ calls[h][Len(calls[h])].u = last[h].u
            /\ calls[h][Len(calls[h])].q = last[h].q
            /\ Len(wire[h]) = 1
            /\ IsSuccess(wire[h][1])
            /\ wire[h][1].Answer = <<>>

\* the first of two upstreams answered status 0 without answers to a two-question request
C20_Witness ==
    \E h \in Handlers :
        /\ GotEnvelope(h)
        /\ last[h].ret.body.rr.Status = 0 /\ last[h].ret.body.rr.Answer = <<>>
        /\ last[h].u = 1 /\ Len(upstreams) = 2 /\ Len(req[h].Question) = 2
        /\ Len(calls[h]) = 1

(***************************************************************************)
(* C11: when a SIGINT or SIGTERM received while serving has ended the      *)
(* process, server.Shutdown was called before.                             *)
(***************************************************************************)
C11_SignalCallsShutdown ==
    (proc.sig # "none" /\ proc.pc # "serving") => proc.shutdown

(***************************************************************************)
(* C13: with no upstream configured the process ends in log.Fatalf without *)
(* ever opening the socket and no request is ever handled; a request is    *)
(* handled only with a non-empty upstream list.                            *)
(***************************************************************************)
C13_NoUpstreamIsFatal ==
    /\ Len(upstreams) = 0 =>
          /\ proc.pc \in {"start", "fatal"}
          /\ ~proc.opened /\ ~proc.listening
          /\ \A h \in Handlers : pc[h] = "wait" /\ calls[h] = <<>> /\ wire[h] = <<>>
    /\ \A h \in Handlers : pc[h] # "wait" => Len(upstreams) > 0 /\ proc.opened

\* the process has ended for want of an upstream
C13_Witness == Len(upstreams) = 0 /\ proc.pc = "fatal" /\ ~proc.opened

====
